---------------------------- MODULE Spec2Model ----------------------------
(***************************************************************************)
(* Risk-factor extraction from filing documents                            *)
(* (old/src/scraping/ExtractRiskFactors.py).                               *)
(*                                                                         *)
(* Text is a sequence of lexical atoms: a word, a punctuation mark or one  *)
(* whitespace character.  Substring tests and regular expressions are      *)
(* evaluated atom by atom; AtomLen gives the number of characters of an    *)
(* atom so that len(...) is the character count.                           *)
(*                                                                         *)
(* A parsed document (the soup) is the sequence of its nodes in document   *)
(* order (pre-order); a long run of <br/> tags is held as its length.      *)
(* A node is a tag or a NavigableString:                                   *)
(*   name   - the tag name, "" for a NavigableString                       *)
(*   id     - the id attribute            (None when absent)               *)
(*   href   - the href attribute          (None when absent)               *)
(*   text   - for a tag: its leading string child (<<>> when it has none); *)
(*            for a NavigableString: the string itself                     *)
(*   parent - index of the parent tag, 0 for the BeautifulSoup object      *)
(***************************************************************************)
EXTENDS Integers, Sequences, FiniteSets, TLC

-----------------------------------------------------------------------------
(* Python values of type Optional[str].                                     *)
None == [isNone |-> TRUE, s |-> <<>>]
Str(x) == [isNone |-> FALSE, s |-> x]
\* Python truthiness of an Optional[str]: None and "" are falsy.
Truthy(v) == ~v.isNone /\ v.s # <<>>
\* f"{v}" of an Optional[str].
Format(v) == IF v.isNone THEN <<"None">> ELSE v.s

-----------------------------------------------------------------------------
(* Characters and strings.                                                  *)
\* The whitespace characters of the model: space, newline, tab, U+00A0.
Whitespace == {" ", "\n", "\t", "NBSP"}

\* Number of characters of an atom.
AtomLen(a) ==
  CASE a \in Whitespace -> 1
    [] a \in {"Item", "ITEM", "Risk", "RISK"} -> 4
    [] a \in {"Factors", "FACTORS"} -> 7
    [] a \in {"1A.", "Our"} -> 3
    [] a \in {"1A", "2.", "5."} -> 2
    [] a = "business" -> 8
    [] a = "risks" -> 5
    [] a = "prose" -> 100
    [] OTHER -> 1

RECURSIVE len(_)
len(s) == IF s = <<>> THEN 0 ELSE AtomLen(Head(s)) + len(Tail(s))

\* needle in hay
InStr(needle, hay) ==
  \E k \in 1..(Len(hay) - Len(needle) + 1) :
     SubSeq(hay, k, k + Len(needle) - 1) = needle

\* hay.startswith(prefix)
startswith(hay, prefix) ==
  Len(hay) >= Len(prefix) /\ SubSeq(hay, 1, Len(prefix)) = prefix

RECURSIVE lstrip(_)
lstrip(s) == IF s # <<>> /\ Head(s) \in Whitespace THEN lstrip(Tail(s)) ELSE s

RECURSIVE rstrip(_)
rstrip(s) ==
  IF s # <<>> /\ s[Len(s)] \in Whitespace THEN rstrip(SubSeq(s, 1, Len(s) - 1)) ELSE s

\* str.strip()
strip(s) == rstrip(lstrip(s))

\* unicodedata.normalize("NFKC", text): U+00A0 becomes a space, the ligature
\* U+FB01 becomes the two letters "f" "i", the diaeresis U+00A8 becomes a
\* space and the combining diaeresis U+0308; the other atoms are NFKC-stable.
RECURSIVE NFKC(_)
NFKC(s) ==
  IF s = <<>> THEN <<>>
  ELSE (CASE Head(s) = "NBSP" -> <<" ">>
          [] Head(s) = "U+FB01" -> <<"f", "i">>
          [] Head(s) = "U+00A8" -> <<" ", "U+0308">>
          [] OTHER -> <<Head(s)>>) \o NFKC(Tail(s))

\* Variant of CollapseWs that replaces each whitespace character by a space
\* (the pattern \s in place of \s+).
RECURSIVE CollapseEach(_)
CollapseEach(s) ==
  IF s = <<>> THEN <<>>
  ELSE (IF Head(s) \in Whitespace THEN <<" ">> ELSE <<Head(s)>>)
         \o CollapseEach(Tail(s))

\* re.sub(r'\s+', ' ', s)
RECURSIVE CollapseWs(_)
CollapseWs(s) ==
  IF s = <<>> THEN <<>>
  ELSE IF Head(s) \in Whitespace
       THEN <<" ">> \o CollapseWs(lstrip(s))
       ELSE <<Head(s)>> \o CollapseWs(Tail(s))

\* Variant of clean_text that normalizes the Unicode form last.
clean_text_NormalizeLast(text) == NFKC(strip(CollapseWs(text)))

clean_text(text) == strip(CollapseWs(NFKC(text)))

\* " ".join(content)
RECURSIVE Join(_)
Join(content) ==
  IF content = <<>> THEN <<>>
  ELSE IF Len(content) = 1 THEN content[1]
  ELSE content[1] \o <<" ">> \o Join(Tail(content))

\* Index of the first non-whitespace atom of s at or after k (Len(s)+1 if none).
RECURSIVE SkipWs(_, _)
SkipWs(s, k) == IF k <= Len(s) /\ s[k] \in Whitespace THEN SkipWs(s, k + 1) ELSE k

\* re.compile(r"Item\s*1A\.?\s*Risk\s*Factors", re.IGNORECASE) matched at atom k.
HeaderMatchAt(s, k) ==
  LET a == SkipWs(s, k + 1)
      r == SkipWs(s, a + 1)
      f == SkipWs(s, r + 1)
  IN /\ k <= Len(s) /\ s[k] \in {"Item", "ITEM"}
     /\ a <= Len(s) /\ s[a] \in {"1A.", "1A"}
     /\ r <= Len(s) /\ s[r] \in {"Risk", "RISK"}
     /\ f <= Len(s) /\ s[f] \in {"Factors", "FACTORS"}

\* pattern.search(s)
HeaderSearch(s) == \E k \in 1..Len(s) : HeaderMatchAt(s, k)

\* re.compile(r"^Item\s*[2-6]\.?", re.IGNORECASE).match(s)
StopMatch(s) ==
  LET n == SkipWs(s, 2)
  IN /\ s # <<>> /\ s[1] \in {"Item", "ITEM"}
     /\ n <= Len(s) /\ s[n] \in {"2.", "5."}

RiskFactorsLiteral == <<"Risk", " ", "Factors">>


-----------------------------------------------------------------------------
(* The document tree and the BeautifulSoup operations the program uses.     *)
\* A run of identical <br/> tags is abbreviated: the document is head, then
\* pad tags <br/>, then tail.
Filler == [name |-> "br", id |-> None, href |-> None, text |-> <<>>, parent |-> 0]
Size(doc) == Len(doc.head) + doc.pad + Len(doc.tail)
At(doc, j) ==
  IF j <= Len(doc.head) THEN doc.head[j]
  ELSE IF j <= Len(doc.head) + doc.pad THEN Filler
  ELSE doc.tail[j - Len(doc.head) - doc.pad]

IsTag(doc, j) == At(doc, j).name # ""

\* The tags of doc, and its NavigableStrings, as sets of positions.  The
\* leading string of tag j is identified with position j: it directly follows
\* the tag in document order.
Tags(doc) == {j \in 1..Size(doc) : IsTag(doc, j)}
StringNodes(doc) == {j \in 1..Size(doc) : At(doc, j).text # <<>>}

Min(S) == CHOOSE x \in S : \A y \in S : x <= y

\* Last position of the subtree of a: the subtree is the run a..SubtreeEnd.
RECURSIVE SubtreeEnd(_, _, _)
SubtreeEnd(doc, a, k) ==
  IF a = 0 THEN Size(doc)
  ELSE IF k < Size(doc) /\ At(doc, k + 1).parent >= a THEN SubtreeEnd(doc, a, k + 1)
  ELSE k

\* Positions of the strings of the subtree of a, in document order.
SubtreeStrings(doc, a) ==
  {j \in (IF a = 0 THEN 1 ELSE a)..SubtreeEnd(doc, a, a) : At(doc, j).text # <<>>}

\* Tag.get_text(strip=...): the strings of the subtree, each stripped and
\* dropped when empty if strip is set, concatenated with the separator "".
RECURSIVE ConcatStrings(_, _, _, _)
ConcatStrings(doc, j, last, strp) ==
  IF j > last THEN <<>>
  ELSE (IF strp THEN strip(At(doc, j).text) ELSE At(doc, j).text)
         \o ConcatStrings(doc, j + 1, last, strp)

get_text(doc, a, strp) ==
  ConcatStrings(doc, IF a = 0 THEN 1 ELSE a, SubtreeEnd(doc, a, a), strp)

\* PageElement.find_next() with no arguments: the next Tag in document order
\* (NavigableStrings do not match an empty filter); 0 stands for None.
find_next(doc, j) ==
  IF j < Size(doc) /\ IsTag(doc, j + 1) THEN j + 1
  ELSE LET later == {k \in (j + 1)..Size(doc) : IsTag(doc, k)}
       IN IF later = {} THEN 0 ELSE Min(later)

\* Variant of find_id that returns the last tag with the id.
find_id_last(doc, v) ==
  LET hits == {j \in Tags(doc) : At(doc, j).id = Str(v)}
  IN IF hits = {} THEN 0 ELSE CHOOSE x \in hits : \A y \in hits : x >= y

\* soup.find(id=v): the first tag whose id attribute equals v; 0 for None.
find_id(doc, v) ==
  LET hits == {j \in Tags(doc) : At(doc, j).id = Str(v)}
  IN IF hits = {} THEN 0 ELSE Min(hits)

\* The children of tag a: its leading string (counted as position a) and the
\* nodes whose parent is a.
ChildCount(doc, a) ==
  (IF At(doc, a).text # <<>> THEN 1 ELSE 0)
    + Cardinality({j \in (a + 1)..Size(doc) : At(doc, j).parent = a})

\* Tag.string: the single child when it is a NavigableString, the .string of
\* the single child when it is a tag, None otherwise.
RECURSIVE TagString(_, _)
TagString(doc, a) ==
  IF ChildCount(doc, a) # 1 THEN None
  ELSE IF At(doc, a).text # <<>> THEN Str(At(doc, a).text)
  ELSE LET c == CHOOSE j \in (a + 1)..Size(doc) : At(doc, j).parent = a
       IN IF IsTag(doc, c) THEN TagString(doc, c) ELSE Str(At(doc, c).text)

\* The <a> tags that have a .string.
LinksWithString(doc) ==
  {j \in Tags(doc) : At(doc, j).name = "a" /\ ~TagString(doc, j).isNone}

\* soup.find('a', string=lambda t: t and "Risk Factors" in t); 0 for None.
FindLinkByLiteral(doc) ==
  LET hits == {j \in LinksWithString(doc) :
                 InStr(RiskFactorsLiteral, TagString(doc, j).s)}
  IN IF hits = {} THEN 0 ELSE Min(hits)

\* soup.find_all('a', href=True), as the increasing sequence of positions.
RECURSIVE SortedSeq(_)
SortedSeq(S) == IF S = {} THEN <<>> ELSE <<Min(S)>> \o SortedSeq(S \ {Min(S)})

find_all_links(doc) ==
  SortedSeq({j \in Tags(doc) : At(doc, j).name = "a" /\ ~At(doc, j).href.isNone})

\* The tag enclosing the string at position j (m.parent).
StringParent(doc, j) == IF IsTag(doc, j) THEN j ELSE At(doc, j).parent

\* parent.name == 'a' or parent.find_parent('a')
RECURSIVE InLink(_, _)
InLink(doc, a) ==
  IF a = 0 THEN FALSE
  ELSE IF At(doc, a).name = "a" THEN TRUE
  ELSE InLink(doc, At(doc, a).parent)

-----------------------------------------------------------------------------
(* The filings on disk: documents built from the markup found in filings.   *)
HeaderText == <<"Item", " ", "1A.", " ", "Risk", " ", "Factors">>
StopText == <<"Item", " ", "2.">>
BodyText == <<"Our", "\n", "business">>
TailText == <<"risks", " ">>

Node(name, id, href, text) ==
  [name |-> name, id |-> id, href |-> href, text |-> text, parent |-> 0]

\* <a href="#s">Item 1A. Risk Factors</a>
TocLink == Node("a", None, Str(<<"#", "s">>), HeaderText)
\* <a href="#e">Item 2.</a>
NextLink == Node("a", None, Str(<<"#", "e">>), StopText)
\* <a href="#s">3</a>: a page-number link to the same anchor
BackLink == Node("a", None, Str(<<"#", "s">>), <<"3">>)
\* <a href="#f">Item 5.</a>
ItemLink == Node("a", None, Str(<<"#", "f">>), <<"Item", " ", "5.">>)
\* <a name="rf">Risk Factors</a>: a link without href
NameLink == Node("a", None, None, RiskFactorsLiteral)
\* <a href="#">Top</a>
HashLink == Node("a", None, Str(<<"#">>), <<"Top">>)
\* <a href="http://...">Risk Factors</a>
ExtLink == Node("a", None, Str(<<"http:", "x">>), RiskFactorsLiteral)
\* <div id="s">Item 1A. Risk Factors</div>
StartDiv == Node("div", Str(<<"s">>), None, HeaderText)
\* <div id="e">Item 2.</div>
EndDiv == Node("div", Str(<<"e">>), None, StopText)
\* <div>Item 1A. Risk Factors</div>
Heading == Node("div", None, None, HeaderText)
\* <div>Item 2.</div>
NextHeading == Node("div", None, None, StopText)
\* <p>(100 characters) Item 1A. Risk Factors</p>: a mention in a sentence
Mention == Node("p", None, None, <<"prose", " ">> \o HeaderText)
\* <p>Item 2. (100 characters)</p>: a sentence that begins like a header
LongItem == Node("p", None, None, StopText \o <<" ", "prose">>)
\* <p>Our\nbusiness</p>
Para == Node("p", None, None, BodyText)
\* <div> ... </div>
Box == Node("div", None, None, <<>>)
\* a NavigableString between tags
TailStr == Node("", None, None, TailText)

LinkTemplates == {TocLink, NextLink, BackLink, ExtLink}
BodyTemplates == {StartDiv, EndDiv, Para, Box, TailStr}

\* Bounds of the generated documents: links, body nodes, nodes in all, and
\* the nesting depth of the body.
MaxLinks == 3
MaxBody == 3
MaxNodes == 5
MaxDepth == 1

\* The generator works on plain node sequences.
RECURSIVE Depth(_, _)
Depth(nodes, j) ==
  IF nodes[j].parent = 0 THEN 0 ELSE 1 + Depth(nodes, nodes[j].parent)

RECURSIVE Encloses(_, _, _)
Encloses(nodes, a, j) ==
  IF j = a THEN TRUE
  ELSE IF j < a THEN FALSE
  ELSE Encloses(nodes, a, nodes[j].parent)

\* The tags of the body (positions > first) that may take the next node as a
\* child: the last node and its ancestors, and 0 for the top level.
OpenParents(nodes, first) ==
  {0} \cup {a \in (first + 1)..Len(nodes) :
              /\ nodes[a].name # ""
              /\ Encloses(nodes, a, Len(nodes))
              /\ Depth(nodes, a) < MaxDepth}

RECURSIVE LinkSeqs(_)
LinkSeqs(n) ==
  IF n = 0 THEN {<<>>}
  ELSE LET prev == LinkSeqs(n - 1)
       IN prev \cup {Append(d, t) : d \in {x \in prev : Len(x) = n - 1},
                                    t \in LinkTemplates}

RECURSIVE Extend(_, _, _)
Extend(links, first, n) ==
  IF n = 0 THEN {links}
  ELSE LET prev == Extend(links, first, n - 1)
           full == {x \in prev : Len(x) = first + n - 1}
       IN prev \cup UNION {{Append(d, [t EXCEPT !.parent = p]) :
                              t \in BodyTemplates, p \in OpenParents(d, first)} :
                           d \in full}

\* A document without abbreviated run.
Plain(nodes) == [head |-> nodes, pad |-> 0, tail |-> <<>>]

\* All documents with at most nl links followed by at most nb body nodes and
\* at most total nodes.
Documents(nl, nb, total) ==
  {Plain(d) : d \in
     UNION {Extend(ls, Len(ls), IF total - Len(ls) < nb THEN total - Len(ls) ELSE nb) :
              ls \in LinkSeqs(nl)}}

\* Bounds of the documents of a multi-row batch run.
BatchLinks == 1
BatchBody == 2
\* Largest number of rows of the input index.
MaxRows == 2

\* max_elements of extract_content_between_anchors.
max_elements == 5000
\* The node limit of the walk of extract_via_regex.
regex_limit == 3000
\* The header-length threshold of extract_via_regex.
header_len == 100

\* Documents with more tags after the start anchor than the walk may visit:
\* without an end link, and with an end anchor that lies beyond the limit.
OversizeFilings ==
  { [head |-> <<TocLink, StartDiv, Para>>, pad |-> max_elements, tail |-> <<Para>>],
    [head |-> <<TocLink, NextLink, StartDiv, Para>>, pad |-> max_elements,
     tail |-> <<Para, EndDiv>>] }

BatchFilings == Documents(BatchLinks, BatchBody, BatchLinks + BatchBody)

\* Documents with a long table of contents: at most MaxTocLinks links, to
\* three targets or to another page, before a short body or none.
MaxTocLinks == 5

RECURSIVE TocSeqs(_)
TocSeqs(n) ==
  IF n = 0 THEN {<<>>}
  ELSE LET prev == TocSeqs(n - 1)
       IN prev \cup {Append(d, t) : d \in {x \in prev : Len(x) = n - 1},
                                    t \in LinkTemplates \cup {ItemLink}}

TocFilings ==
  {Plain(ls \o body) : ls \in TocSeqs(MaxTocLinks),
                       body \in {<<>>, <<StartDiv, Para>>}}
WideFilings == Documents(MaxLinks, MaxBody, MaxNodes)

\* Documents for the header search: at most MaxHeaderNodes nodes, nested to
\* depth MaxDepth, among them headers, sentences that mention a header, and
\* a link to an anchor that does not exist.
MaxHeaderNodes == 4
HeaderTemplates == {TocLink, Heading, NextHeading, Mention, LongItem, Para}

RECURSIVE HeaderSeqs(_)
HeaderSeqs(n) ==
  IF n = 0 THEN {<<>>}
  ELSE LET prev == HeaderSeqs(n - 1)
           full == {x \in prev : Len(x) = n - 1}
       IN prev \cup UNION {{Append(d, [t EXCEPT !.parent = p]) :
                              t \in HeaderTemplates, p \in OpenParents(d, 0)} :
                           d \in full}

HeaderFilings == {Plain(d) : d \in HeaderSeqs(MaxHeaderNodes)}

\* Documents without TOC link that have more tags after the header than the
\* walk of extract_via_regex may visit: without a next-item header, and with
\* one that lies beyond the limit.
LongFilings ==
  { [head |-> <<Heading, Para>>, pad |-> regex_limit, tail |-> <<Para>>],
    [head |-> <<Heading, Para>>, pad |-> regex_limit, tail |-> <<Para, NextHeading>>] }

\* Documents whose links include links without href, to another page and
\* to the empty target: at most MaxAnchorLinks links before a body.
MaxAnchorLinks == 3
AnchorTemplates == {TocLink, NextLink, ExtLink, NameLink, HashLink}

RECURSIVE SeqsOver(_, _)
SeqsOver(T, n) ==
  IF n = 0 THEN {<<>>}
  ELSE LET prev == SeqsOver(T, n - 1)
       IN prev \cup {Append(d, t) : d \in {x \in prev : Len(x) = n - 1}, t \in T}

AnchorFilings ==
  {Plain(ls \o body) : ls \in SeqsOver(AnchorTemplates, MaxAnchorLinks),
                       body \in {<<>>, <<StartDiv, Para>>, <<StartDiv, Para, EndDiv, Para>>}}

\* The documents the files on disk may parse to, by collection.
Corpus(c) ==
  CASE c = "batch" -> BatchFilings
    [] c = "wide" -> WideFilings
    [] c = "oversize" -> OversizeFilings \cup BatchFilings
    [] c = "contents" -> TocFilings
    [] c = "headers" -> HeaderFilings \cup BatchFilings
    [] c = "long" -> LongFilings \cup BatchFilings
    [] c = "anchors" -> AnchorFilings

-----------------------------------------------------------------------------
(* The input index and the file system.                                     *)
Columns == {"accessionNumber", "ticker", "saved_path"}
Accessions == {"0000320193-22-000007", "0000789019-22-000010"}
\* Values of the saved_path column.
SavedPaths == { <<>>,
                <<"sec_10q", "/", "a.htm">>,
                <<"./", "Extracted", "/", "a.htm">> }

\* str(Path(rel_path)): a leading "./" is dropped.
RECURSIVE PathStr(_)
PathStr(p) == IF p # <<>> /\ Head(p) = "./" THEN PathStr(Tail(p)) ELSE p

\* str(e) of the exception raised by open() or by the parser.
ExceptionText(kind, path) ==
  IF kind = "PermissionError"
  THEN <<"[Errno 13] Permission denied: '">> \o PathStr(path) \o <<"'">>
  ELSE <<"'utf-8' codec can't decode byte 0xff in position 0: invalid start byte">>

Sentinel == <<"SECTION_NOT_FOUND_OR_REFERENCE_ONLY">>
Statuses == {"Extracted", "Not Found", "Skipped", "Error"}

-----------------------------------------------------------------------------
VARIABLES
  corpus,      \* which collection of filings is on disk
  columns,     \* the header of INPUT_CSV
  nrows,       \* len(rows)
  i,           \* number of rows main has taken from rows
  stats,       \* main: the tally
  files,       \* OUTPUT_DIR: accession |-> content of {accession}.txt, None if absent
  pc,          \* control position
  accession,   \* process_filing: row['accessionNumber']
  rel_path,    \* process_filing: row.get('saved_path')
  soup,        \* process_filing: the parsed document
  link,        \* extract_via_toc: the matched link (0 for None)
  start_id,    \* extract_via_toc / extractor argument
  end_id,      \* extract_via_toc / extractor argument
  start_elem,  \* the node the walk started after (start_elem, candidate)
  curr,        \* the walks: current node (0 for None)
  count,       \* the walks: nodes visited
  content,     \* the walks: accumulator
  text,        \* process_filing: the span
  method,      \* process_filing: the diagnostic label
  status,      \* process_filing: the status
  res,         \* main: the result string of process_filing
  calls,       \* the locators process_filing has run for this row, with results
  arg,         \* clean_text called on its own: the text passed first
  ret          \* clean_text called on its own: the values returned so far

vars == <<corpus, columns, nrows, i, stats, files, pc, accession, rel_path, soup,
          link, start_id, end_id, start_elem, curr, count, content, text, method,
          status, res, calls, arg, ret>>

\* What a batch run leaves as it is: the index, the files to read, and the
\* calls of clean_text on its own.
env == <<corpus, columns, nrows, arg, ret>>
locator == <<link, start_id, end_id, start_elem, curr, count, content>>

\* No document: process_filing has parsed nothing.
NoDoc == [head |-> <<>>, pad |-> -1, tail |-> <<>>]

\* State of the locals outside process_filing.
Idle ==
  /\ accession = "" /\ rel_path = None /\ soup = NoDoc
  /\ link = 0 /\ start_id = None /\ end_id = None /\ start_elem = 0
  /\ curr = 0 /\ count = 0 /\ content = <<>>
  /\ text = None /\ method = <<>> /\ status = "" /\ calls = <<>>

InitWith(c, rows) ==
  /\ corpus = c
  /\ columns \in {Columns} \cup {Columns \ {col} : col \in Columns}
  /\ nrows \in rows
  /\ i = 0
  /\ stats = [st \in Statuses |-> 0]
  /\ files = [a \in Accessions |-> None]
  /\ pc = "main"
  /\ res = <<>>
  /\ arg = <<>>
  /\ ret = <<>>
  /\ Idle

Init == InitWith("batch", 0..MaxRows)

-----------------------------------------------------------------------------
(* main, lines 213-214, and the first statements of process_filing,         *)
(* lines 156-163: the next row is taken and its columns are read.           *)
main_next_row ==
  /\ pc = "main" /\ i < nrows
  /\ i' = i + 1
  /\ IF ~({"accessionNumber", "ticker"} \subseteq columns)
     THEN \* row['accessionNumber'] / row['ticker'] raises KeyError
          /\ pc' = "crashed"
          /\ UNCHANGED <<accession, rel_path>>
     ELSE /\ pc' = "path"
          /\ accession' \in Accessions
          /\ IF "saved_path" \in columns
             THEN \E p \in SavedPaths : rel_path' = Str(p)
             ELSE rel_path' = None
  /\ UNCHANGED <<env, stats, files, soup, locator, text, method, status, res, calls>>

\* main, lines 221-222: the row list is exhausted.
main_done ==
  /\ pc = "main" /\ i = nrows
  /\ pc' = "done"
  /\ UNCHANGED <<env, i, stats, files, accession, rel_path, soup, locator, text,
                 method, status, res, calls>>

\* process_filing returns r to main; its locals are dropped when main has
\* tallied the result.
Return(r) ==
  /\ res' = r
  /\ pc' = "tally"
  /\ UNCHANGED <<rel_path, soup, locator>>

\* process_filing, lines 163-169.
process_filing_path ==
  /\ pc = "path"
  /\ IF ~Truthy(rel_path)
     THEN Return(<<"Skipped", " (No path)">>)
     ELSE \E exists \in BOOLEAN :
            IF ~exists
            THEN Return(<<"Skipped", " (File not found: ">> \o PathStr(rel_path.s) \o <<")">>)
            ELSE /\ pc' = "read"
                 /\ UNCHANGED <<res, rel_path, soup, locator>>
  /\ UNCHANGED <<env, i, stats, files, accession, text, method, status, calls>>

\* process_filing, lines 171-176.
process_filing_read ==
  /\ pc = "read"
  /\ \E kind \in {"ok", "PermissionError", "UnicodeDecodeError"} :
       IF kind = "ok"
       THEN /\ soup' \in Corpus(corpus)
            /\ pc' = "toc"
            /\ UNCHANGED <<res, rel_path, locator>>
       ELSE Return(<<"Error", " reading HTML: ">> \o ExceptionText(kind, rel_path.s))
  /\ UNCHANGED <<env, i, stats, files, accession, text, method, status, calls>>


-----------------------------------------------------------------------------
(* extract_via_toc                                                          *)

\* l == link on two tags: bs4 compares tags by name, attributes and contents.
SameTag(doc, a, b) ==
  LET Shape(t) == [k \in 1..(SubtreeEnd(doc, t, t) - t + 1) |->
                     [At(doc, t + k - 1) EXCEPT !.parent = IF k = 1 THEN 0 ELSE @ - t + 1]]
  IN Shape(a) = Shape(b)

\* Variant of LookAhead without the comparison with the start id.
RECURSIVE LookAheadAnyTarget(_, _, _, _)
LookAheadAnyTarget(doc, toc_links, j, sid) ==
  IF j > Len(toc_links) THEN None
  ELSE LET next_href == At(doc, toc_links[j]).href
       IN IF Truthy(next_href) /\ startswith(next_href.s, <<"#">>)
          THEN Str(Tail(next_href.s))
          ELSE LookAheadAnyTarget(doc, toc_links, j + 1, sid)

\* Lines 84-100: the target of the first link from toc_links[j] on that has an
\* internal href and does not point to the start anchor; None if there is none.
RECURSIVE LookAhead(_, _, _, _)
LookAhead(doc, toc_links, j, sid) ==
  IF j > Len(toc_links) THEN None
  ELSE LET next_href == At(doc, toc_links[j]).href
       IN IF Truthy(next_href) /\ startswith(next_href.s, <<"#">>)
          THEN LET candidate_id == Tail(next_href.s)
               IN IF candidate_id = sid
                  THEN LookAhead(doc, toc_links, j + 1, sid)
                  ELSE Str(candidate_id)
          ELSE LookAhead(doc, toc_links, j + 1, sid)

\* Variant of FindEndId that looks at the links from the first on.
FindEndIdFromFirst(doc, lnk, sid) ==
  LET toc_links == find_all_links(doc)
      at == {k \in 1..Len(toc_links) : SameTag(doc, toc_links[k], lnk)}
  IN IF at = {} THEN None ELSE LookAhead(doc, toc_links, 1, sid)

\* Lines 77-101: the end id for the matched link lnk and start id sid.
FindEndId(doc, lnk, sid) ==
  LET toc_links == find_all_links(doc)
      at == {k \in 1..Len(toc_links) : SameTag(doc, toc_links[k], lnk)}
  IN IF at = {} THEN None ELSE LookAhead(doc, toc_links, Min(at) + 1, sid)

\* soup.find('a', string=re.compile(r"Item\s*1A\.?\s*Risk\s*Factors",
\* re.IGNORECASE)); 0 for None.
FindLinkByPattern(doc) ==
  LET hits == {j \in LinksWithString(doc) : HeaderSearch(TagString(doc, j).s)}
  IN IF hits = {} THEN 0 ELSE Min(hits)

\* Variant of FindTocLink that prefers a matching link with an internal href.
FindTocLinkInternal(doc) ==
  LET hits == {j \in LinksWithString(doc) :
                 /\ InStr(RiskFactorsLiteral, TagString(doc, j).s)
                 /\ Truthy(At(doc, j).href)
                 /\ startswith(At(doc, j).href.s, <<"#">>)}
  IN IF hits # {} THEN Min(hits)
     ELSE IF FindLinkByLiteral(doc) # 0 THEN FindLinkByLiteral(doc)
     ELSE FindLinkByPattern(doc)

\* Lines 59-62: the matched link, 0 for None.
FindTocLink(doc) ==
  IF FindLinkByLiteral(doc) # 0 THEN FindLinkByLiteral(doc) ELSE FindLinkByPattern(doc)

TocLabel(eid) == <<"TOC extraction (End anchor: ">> \o Format(eid) \o <<")">>

\* Variant of FallbackNeeded: the regex locator runs whatever the TOC span.
FallbackAlways(t) == TRUE

\* process_filing, line 182: the regex locator runs.
FallbackNeeded(t) == ~Truthy(t)

\* process_filing, lines 179-183: extract_via_toc returned (t, m).
TocReturns(t, m) ==
  /\ text' = t
  /\ method' = m
  /\ calls' = Append(calls, [fn |-> "extract_via_toc", span |-> t])
  /\ pc' = IF FallbackNeeded(t) THEN "regex" ELSE "save"

\* Variant of extract_via_toc that clears the matched link in the tree
\* (link.clear()) once it has read its href.
extract_via_toc_ClearingLink ==
  /\ pc = "toc"
  /\ LET lnk == FindTocLink(soup)
         href == IF lnk = 0 THEN None ELSE At(soup, lnk).href
     IN /\ link' = lnk
        /\ soup' = IF lnk = 0 THEN soup ELSE [soup EXCEPT !.head[lnk].text = <<>>]
        /\ IF lnk = 0
           THEN /\ TocReturns(None, <<"No TOC link found">>)
                /\ UNCHANGED <<start_id, end_id, start_elem, curr, count, content>>
           ELSE IF ~Truthy(href) \/ ~startswith(href.s, <<"#">>)
           THEN /\ TocReturns(None, <<"TOC link has no internal href">>)
                /\ UNCHANGED <<start_id, end_id, start_elem, curr, count, content>>
           ELSE LET sid == Tail(href.s)
                    eid == FindEndId(soup, lnk, sid)
                    st == find_id(soup, sid)
                IN /\ start_id' = Str(sid)
                   /\ end_id' = eid
                   /\ start_elem' = st
                   /\ IF st = 0
                      THEN /\ TocReturns(None, TocLabel(eid))
                           /\ UNCHANGED <<curr, count, content>>
                      ELSE /\ content' = <<>>
                           /\ curr' = find_next(soup, st)
                           /\ count' = 0
                           /\ pc' = "walk"
                           /\ UNCHANGED <<text, method, calls>>
  /\ UNCHANGED <<env, i, stats, files, accession, rel_path, status, res>>

\* extract_via_toc, lines 59-106, up to the loop of the extractor
\* (extract_content_between_anchors, lines 23-32).
extract_via_toc ==
  /\ pc = "toc"
  /\ LET lnk == FindTocLink(soup)
         href == IF lnk = 0 THEN None ELSE At(soup, lnk).href
     IN /\ link' = lnk
        /\ IF lnk = 0
           THEN /\ TocReturns(None, <<"No TOC link found">>)
                /\ UNCHANGED <<start_id, end_id, start_elem, curr, count, content>>
           ELSE IF ~Truthy(href) \/ ~startswith(href.s, <<"#">>)
           THEN /\ TocReturns(None, <<"TOC link has no internal href">>)
                /\ UNCHANGED <<start_id, end_id, start_elem, curr, count, content>>
           ELSE LET sid == Tail(href.s)
                    eid == FindEndId(soup, lnk, sid)
                    st == find_id(soup, sid)
                IN /\ start_id' = Str(sid)
                   /\ end_id' = eid
                   /\ start_elem' = st
                   /\ IF st = 0
                      THEN /\ TocReturns(None, TocLabel(eid))
                           /\ UNCHANGED <<curr, count, content>>
                      ELSE /\ content' = <<>>
                           /\ curr' = find_next(soup, st)
                           /\ count' = 0
                           /\ pc' = "walk"
                           /\ UNCHANGED <<text, method, calls>>
  /\ UNCHANGED <<env, i, stats, files, accession, rel_path, soup, status, res>>

\* Lines 42-49: the text the walk takes from node c.
NodeText(doc, c) ==
  IF IsTag(doc, c) THEN get_text(doc, c, TRUE) ELSE strip(At(doc, c).text)

\* Variant of WalkContinues without the safety counter.
WalkUnbounded(c, n) == c # 0

\* Line 34: the loop condition.
WalkContinues(c, n) == c # 0 /\ n < max_elements

\* Variant of AtEndAnchor without the test that an end id was given.
AtEndAnchorAnyId(doc, c, eid) == At(doc, c).id = eid

\* Line 36: the node is the end anchor.
AtEndAnchor(doc, c, eid) == Truthy(eid) /\ At(doc, c).id = eid

\* Variant of Joined that returns None when nothing was collected.
JoinedOrNone(c) == IF c = <<>> THEN None ELSE Str(Join(c))

\* Line 54: the value returned after the loop.
Joined(c) == Str(Join(c))

\* extract_content_between_anchors, lines 34-54: one test of the loop
\* condition, followed by the loop body or by the return to extract_via_toc
\* (line 107) and process_filing.
extract_content_between_anchors ==
  /\ pc = "walk"
  /\ IF WalkContinues(curr, count) /\ ~AtEndAnchor(soup, curr, end_id)
     THEN /\ content' = IF NodeText(soup, curr) # <<>>
                        THEN Append(content, NodeText(soup, curr))
                        ELSE content
          /\ curr' = find_next(soup, curr)
          /\ count' = count + 1
          /\ UNCHANGED <<pc, text, method, calls>>
     ELSE /\ TocReturns(Joined(content), TocLabel(end_id))
          /\ UNCHANGED <<curr, count, content>>
  /\ UNCHANGED <<env, i, stats, files, accession, rel_path, soup, link, start_id,
                 end_id, start_elem, status, res>>

-----------------------------------------------------------------------------
(* extract_via_regex                                                        *)

\* Variant of RegexCandidate that takes every string, matching or not
\* (find_all(string=True)).
RegexCandidateAnyString(doc) ==
  LET accepted == {m \in StringNodes(doc) :
                     /\ ~InLink(doc, StringParent(doc, m))
                     /\ len(clean_text(get_text(doc, StringParent(doc, m), FALSE)))
                          < header_len}
  IN IF accepted = {} THEN -1 ELSE StringParent(doc, Min(accepted))

\* Variant of RegexCandidate that rejects a match only when its parent is
\* itself a link.
RegexCandidateDirectLink(doc) ==
  LET accepted == {m \in StringNodes(doc) :
                     /\ HeaderSearch(At(doc, m).text)
                     /\ StringParent(doc, m) # 0 =>
                          At(doc, StringParent(doc, m)).name # "a"
                     /\ len(clean_text(get_text(doc, StringParent(doc, m), FALSE)))
                          < header_len}
  IN IF accepted = {} THEN -1 ELSE StringParent(doc, Min(accepted))

\* Lines 116-129: the accepted header; 0 is the BeautifulSoup object itself
\* and -1 stands for None.
RegexCandidate(doc) ==
  LET accepted == {m \in StringNodes(doc) :
                     /\ HeaderSearch(At(doc, m).text)
                     /\ ~InLink(doc, StringParent(doc, m))
                     /\ len(clean_text(get_text(doc, StringParent(doc, m), FALSE)))
                          < header_len}
  IN IF accepted = {} THEN -1 ELSE StringParent(doc, Min(accepted))

\* process_filing, line 183: extract_via_regex returned (t, m).
RegexReturns(t, m) ==
  /\ text' = t
  /\ method' = m
  /\ calls' = Append(calls, [fn |-> "extract_via_regex", span |-> t])
  /\ pc' = "save"

\* extract_via_regex, lines 115-139, up to its loop.
extract_via_regex ==
  /\ pc = "regex"
  /\ LET candidate == RegexCandidate(soup)
     IN /\ start_elem' = candidate
        /\ IF candidate = -1
           THEN /\ RegexReturns(None, <<"Regex: Header not found">>)
                /\ UNCHANGED <<curr, count, content>>
           ELSE /\ content' = <<>>
                /\ curr' = find_next(soup, candidate)
                /\ count' = 0
                /\ pc' = "rwalk"
                /\ UNCHANGED <<text, method, calls>>
  /\ UNCHANGED <<env, i, stats, files, accession, rel_path, soup, link, start_id,
                 end_id, status, res>>

\* Variant of RegexWalkContinues without the node limit.
RegexWalkUnbounded(c, n) == c # 0

\* Line 141: the loop condition.
RegexWalkContinues(c, n) == c # 0 /\ n < regex_limit

\* Line 144: the node is a next-item header.
IsStopHeader(t) == StopMatch(t) /\ len(t) < header_len

\* extract_via_regex, lines 141-153: one test of the loop condition, followed
\* by the loop body or by the return.
extract_via_regex_walk ==
  /\ pc = "rwalk"
  /\ IF RegexWalkContinues(curr, count) /\ ~IsStopHeader(get_text(soup, curr, TRUE))
     THEN /\ content' = IF get_text(soup, curr, TRUE) # <<>>
                        THEN Append(content, get_text(soup, curr, TRUE))
                        ELSE content
          /\ curr' = find_next(soup, curr)
          /\ count' = count + 1
          /\ UNCHANGED <<pc, text, method, calls>>
     ELSE /\ RegexReturns(Str(Join(content)), <<"Regex extraction">>)
          /\ UNCHANGED <<curr, count, content>>
  /\ UNCHANGED <<env, i, stats, files, accession, rel_path, soup, link, start_id,
                 end_id, start_elem, status, res>>

-----------------------------------------------------------------------------
(* process_filing: saving the result                                        *)

\* Variant of Substitute with the test "text is None" in place of "not text".
SubstituteNoneOnly(t) ==
  IF t.isNone
  THEN [text |-> Str(Sentinel), status |-> "Not Found"]
  ELSE [text |-> t, status |-> "Extracted"]

\* Lines 188-192: the text to save and the status.
Substitute(t) ==
  IF ~Truthy(t)
  THEN [text |-> Str(Sentinel), status |-> "Not Found"]
  ELSE [text |-> t, status |-> "Extracted"]

\* process_filing, lines 186-194: the status is decided and the output file
\* is opened for writing, which creates or truncates it; open() may raise
\* OSError, which nothing catches.
process_filing_save ==
  /\ pc = "save"
  /\ text' = Substitute(text).text
  /\ status' = Substitute(text).status
  /\ \E opened \in BOOLEAN :
       IF opened
       THEN /\ files' = [files EXCEPT ![accession] = Str(<<>>)]
            /\ pc' = "write"
       ELSE /\ pc' = "crashed"
            /\ UNCHANGED files
  /\ UNCHANGED <<env, i, stats, accession, rel_path, soup, locator, method, res, calls>>

\* process_filing, lines 195-197: the normalized text is written and the
\* result string returned; write() may raise OSError, which nothing catches.
process_filing_write ==
  /\ pc = "write"
  /\ \E written \in BOOLEAN :
       IF written
       THEN /\ files' = [files EXCEPT ![accession] = Str(clean_text(text.s))]
            /\ Return(<<status, " (">> \o method \o <<")">>)
       ELSE /\ pc' = "crashed"
            /\ UNCHANGED <<files, res, rel_path, soup, locator>>
  /\ UNCHANGED <<env, i, stats, accession, text, method, status, calls>>

-----------------------------------------------------------------------------
(* main: the tally                                                          *)

\* Lines 216-219: the counter that the result string r increments.
Counter(r) ==
  IF InStr(<<"Extracted">>, r) THEN "Extracted"
  ELSE IF InStr(<<"Not Found">>, r) THEN "Not Found"
  ELSE IF InStr(<<"Skipped">>, r) THEN "Skipped"
  ELSE IF InStr(<<"Error">>, r) THEN "Error"
  ELSE "none"

\* main, lines 216-219; the locals of the finished call are dropped.
main_tally ==
  /\ pc = "tally"
  /\ stats' = IF Counter(res) \in Statuses
              THEN [stats EXCEPT ![Counter(res)] = @ + 1]
              ELSE stats
  /\ pc' = "main"
  /\ accession' = "" /\ rel_path' = None /\ soup' = NoDoc
  /\ link' = 0 /\ start_id' = None /\ end_id' = None /\ start_elem' = 0
  /\ curr' = 0 /\ count' = 0 /\ content' = <<>>
  /\ text' = None /\ method' = <<>> /\ status' = "" /\ calls' = <<>>
  /\ UNCHANGED <<env, i, files, res>>

Next ==
  \/ main_next_row
  \/ main_done
  \/ process_filing_path
  \/ process_filing_read
  \/ extract_via_toc
  \/ extract_content_between_anchors
  \/ extract_via_regex
  \/ extract_via_regex_walk
  \/ process_filing_save
  \/ process_filing_write
  \/ main_tally

\* A batch run over an index of at most MaxRows rows.
Spec == Init /\ [][Next]_vars

\* A run over a one-row index whose file may be any of the wide documents.
InitLocate == InitWith("wide", {1})
SpecLocate == InitLocate /\ [][Next]_vars

\* A run over a one-row index whose file has a long table of contents.
InitToc == InitWith("contents", {1})
SpecToc == InitToc /\ [][Next]_vars

\* A run over a one-row index whose file has headers and mentions of them.
InitHeaders == InitWith("headers", {1})
SpecHeaders == InitHeaders /\ [][Next]_vars

\* A run over a one-row index whose file may have a very long section.
InitLong == InitWith("long", {1})
SpecLong == InitLong /\ [][Next]_vars

\* A run over a one-row index whose file has links of every kind.
InitAnchors == InitWith("anchors", {1})
SpecAnchors == InitAnchors /\ [][Next]_vars

\* clean_text, lines 13-19, called on a text and then on what it returned.
clean_text_call ==
  /\ pc = "clean"
  /\ Len(ret) < 2
  /\ ret' = Append(ret, clean_text(IF ret = <<>> THEN arg ELSE ret[Len(ret)]))
  /\ UNCHANGED <<corpus, columns, nrows, arg, i, stats, files, pc, accession,
                 rel_path, soup, locator, text, method, status, res, calls>>

\* The characters of the texts clean_text is called on, and their number.
Alphabet == {" ", "\n", "\t", "NBSP", "U+FB01", "U+00A8", "Our"}
MaxText == 4

RECURSIVE Texts(_)
Texts(n) ==
  IF n = 0 THEN {<<>>}
  ELSE Texts(n - 1) \cup {Append(t, c) : t \in {x \in Texts(n - 1) : Len(x) = n - 1},
                                          c \in Alphabet}

\* clean_text on every text of at most MaxText characters.
InitNormalize ==
  /\ corpus = "batch" /\ columns = Columns /\ nrows = 0
  /\ i = 0
  /\ stats = [st \in Statuses |-> 0]
  /\ files = [a \in Accessions |-> None]
  /\ pc = "clean"
  /\ res = <<>>
  /\ arg \in Texts(MaxText)
  /\ ret = <<>>
  /\ Idle

SpecNormalize == InitNormalize /\ [][clean_text_call]_vars

\* A run over a one-row index whose file may be an oversize document.
InitCeiling == InitWith("oversize", {1})
SpecCeiling == InitCeiling /\ [][Next]_vars


-----------------------------------------------------------------------------
(* Properties                                                               *)

\* process_filing has parsed the file of the current row and is past the
\* locators.
PastLocators == pc \in {"save", "write", "tally"} /\ calls # <<>>

\* The walk of extract_content_between_anchors has run and returned, and
\* its locals are still those of that walk.
TocWalkReturned ==
  /\ pc \in {"regex", "save", "write", "tally"}
  /\ Len(calls) = 1
  /\ start_elem > 0

\* C1: extract_content_between_anchors visits at most max_elements (5000)
\* nodes after the start anchor, whatever the end anchor; when the walk ends,
\* by the limit or otherwise, it returns the joined accumulator as a string,
\* and a record whose TOC text is non-empty is reported and tallied as
\* Extracted.
C1_TraversalCeiling ==
  /\ pc = "walk" => count <= max_elements
  /\ TocWalkReturned =>
       /\ count <= max_elements
       /\ calls[1].span = Str(Join(content))
  /\ (pc = "tally" /\ calls # <<>> /\ Truthy(calls[1].span)) =>
       /\ status = "Extracted"
       /\ Counter(res) = "Extracted"

\* The limit stopped a walk that had more nodes to visit, and the partial
\* text was saved as Extracted.
C1_Witness ==
  /\ pc = "tally"
  /\ TocWalkReturned
  /\ count = max_elements /\ curr # 0
  /\ content # <<>>
  /\ status = "Extracted"

\* C2: no failure while processing a row aborts the batch: main never stops
\* before the end of the row list.
C2_BatchNeverAborts == pc # "crashed"

C4_StrategyOrder ==
  /\ calls # <<>> => calls[1].fn = "extract_via_toc"
  /\ pc \in {"regex", "rwalk"} => (Len(calls) = 1 /\ ~Truthy(calls[1].span))
  /\ pc \in {"save", "write", "tally"} /\ soup # NoDoc => calls # <<>>
  /\ PastLocators =>
       /\ Len(calls) <= 2
       /\ Len(calls) = 2 <=> ~Truthy(calls[1].span)
       /\ Len(calls) = 2 => calls[2].fn = "extract_via_regex"
  /\ (pc = "tally" /\ calls # <<>> /\ Truthy(calls[1].span)) =>
       files[accession] = Str(clean_text(calls[1].span.s))

\* The TOC link's target id is not in the document, and the regex locator
\* has run after the TOC locator.
C4_Witness ==
  /\ pc = "tally"
  /\ Len(calls) = 2
  /\ link # 0 /\ ~start_id.isNone
  /\ find_id(soup, start_id.s) = 0
  /\ calls[1].span.isNone

\* C5: when extract_via_toc calls the extractor, the start id is the matched
\* link's href without its leading '#', and the end id differs from the
\* start id.
C5_EndDiffersFromStart ==
  ~start_id.isNone =>
     /\ link # 0
     /\ At(soup, link).href = Str(<<"#">> \o start_id.s)
     /\ end_id # start_id

\* A link after the matched link points back to the start anchor and was
\* passed over for a later link with another target.
C5_Witness ==
  /\ ~start_id.isNone
  /\ Truthy(end_id)
  /\ \E k \in (link + 1)..Size(soup) :
       /\ At(soup, k).name = "a" /\ At(soup, k).href = Str(<<"#">> \o start_id.s)
       /\ \E n \in (k + 1)..Size(soup) :
            At(soup, n).name = "a" /\ At(soup, n).href = Str(<<"#">> \o end_id.s)
       /\ \A n \in (link + 1)..k :
            At(soup, n).name = "a" => At(soup, n).href # Str(<<"#">> \o end_id.s)

\* The strings between positions s and e (both exclusive), each stripped,
\* the empty ones dropped, joined by single spaces.
RECURSIVE Fragments(_, _, _)
Fragments(doc, j, e) ==
  IF j >= e THEN <<>>
  ELSE (IF strip(At(doc, j).text) # <<>> THEN <<strip(At(doc, j).text)>> ELSE <<>>)
         \o Fragments(doc, j + 1, e)

Intervening(doc, s, e) == Join(Fragments(doc, s + 1, e))

\* C6: for a document with a link "Item 1A. Risk Factors" to #S, a later
\* link to a distinct #E, and elements S before E with the text T between
\* them, the record's file holds clean_text(T) and is tallied as Extracted.
C6_EndToEnd ==
  (pc = "tally" /\ calls # <<>>) =>
    LET l == FindTocLink(soup)
        s == find_id(soup, start_id.s)
        e == find_id(soup, end_id.s)
    IN (/\ l # 0 /\ At(soup, l).text = HeaderText
        /\ ~start_id.isNone /\ Truthy(end_id)
        /\ s # 0 /\ e # 0 /\ s < e
        /\ Intervening(soup, s, e) # <<>>)
       => /\ files[accession] = Str(clean_text(Intervening(soup, s, e)))
          /\ Counter(res) = "Extracted"

\* The tags the walk has visited.
Visited == {v \in Tags(soup) : v > start_elem /\ (curr = 0 \/ v < curr)}

\* C7: with an end id, the returned text holds no string of the end anchor
\* element or of a node after it in document order.
C7_EndExclusive ==
  (TocWalkReturned /\ Truthy(end_id)) =>
    \A e \in {t \in Tags(soup) : t > start_elem /\ At(soup, t).id = end_id} :
      \A v \in Visited : \A p \in SubtreeStrings(soup, v) : p < e

\* C8: a record whose saved_path is empty or names no file is Skipped: no
\* file is written, nothing is parsed or located, and exactly the Skipped
\* count rises by one.
C8_SkippedFrame ==
  [][/\ (pc = "path" /\ pc' = "tally") =>
          (files' = files /\ soup' = NoDoc /\ calls' = <<>> /\ res'[1] = "Skipped")
     /\ (pc = "tally" /\ res[1] = "Skipped") =>
          stats' = [stats EXCEPT !["Skipped"] = @ + 1]]_vars

\* C9: a record whose file cannot be read or parsed is an Error: no locator
\* runs, no file is written, and exactly the Error count rises by one.
C9_ErrorFrame ==
  [][/\ (pc = "read" /\ pc' = "tally") =>
          (files' = files /\ soup' = NoDoc /\ calls' = <<>> /\ res'[1] = "Error")
     /\ (pc = "tally" /\ res[1] = "Error") =>
          stats' = [stats EXCEPT !["Error"] = @ + 1]]_vars

\* C10: every row increments exactly the counter of its own outcome (the
\* status its result string starts with), so the counts sum to the number
\* of rows processed.
C10_TallyExact ==
  [][pc = "tally" => stats' = [stats EXCEPT ![res[1]] = @ + 1]]_vars

\* No string of the document holds the literal "Risk Factors" or matches the
\* header pattern.
NoMention(doc) ==
  \A j \in StringNodes(doc) :
     /\ ~InStr(RiskFactorsLiteral, At(doc, j).text)
     /\ ~HeaderSearch(At(doc, j).text)

\* C11: for a document with no "Risk Factors" mention (no link text and no
\* text node matching), neither locator walks the document, both return
\* null as their span, and the record is saved as the sentinel with status
\* Not Found and tallied as Not Found.
C11_NoMentionNotFound ==
  (soup # NoDoc /\ NoMention(soup)) =>
     /\ pc \notin {"walk", "rwalk"}
     /\ \A k \in 1..Len(calls) : calls[k].span.isNone
     /\ pc = "tally" =>
          /\ Len(calls) = 2
          /\ files[accession] = Str(Sentinel)
          /\ status = "Not Found"
          /\ res[1] = "Not Found"
          /\ Counter(res) = "Not Found"

\* A document with a link and a paragraph, none of which mentions the
\* section, has been saved as the sentinel.
C11_Witness ==
  /\ pc = "tally"
  /\ soup # NoDoc /\ NoMention(soup)
  /\ \E a \in Tags(soup) : At(soup, a).name = "a"
  /\ \E p \in Tags(soup) : At(soup, p).name = "p"
  /\ files[accession] = Str(Sentinel)
  /\ Len(calls) = 2

\* C12: an output file never shows a partial write: whenever the content of
\* a file changes, it changes to the complete new content of the record
\* being processed.
C12_NoPartialWrite ==
  [][\A a \in Accessions :
       files'[a] # files[a] =>
         /\ a = accession
         /\ calls # <<>>
         /\ files'[a] =
              Str(clean_text(Substitute(calls[Len(calls)].span).text.s))]_vars


\* The non-whitespace tokens of s: its maximal runs of non-whitespace
\* characters, in order.
RECURSIVE Tokens(_)
Tokens(s) ==
  LET t == lstrip(s)
      stops == {k \in 1..Len(t) : t[k] \in Whitespace}
      n == IF stops = {} THEN Len(t) + 1 ELSE Min(stops)
  IN IF t = <<>> THEN <<>>
     ELSE <<SubSeq(t, 1, n - 1)>> \o Tokens(SubSeq(t, n, Len(t)))

\* C13: clean_text is idempotent: clean_text(clean_text(x)) = clean_text(x).
C13_Idempotent == Len(ret) = 2 => ret[2] = ret[1]

\* clean_text has been applied twice to a text that begins with a character
\* whose compatibility form begins with a space.
C13_Witness ==
  /\ Len(ret) = 2
  /\ arg # <<>> /\ Head(arg) = "U+00A8"
  /\ ret[1] # arg /\ ret[1] # <<>>

\* The properties of y = clean_text(x) that do not depend on the tokens: no
\* leading or trailing whitespace, no whitespace but the space, no two
\* adjacent spaces, and the empty string for an empty or all-whitespace x.
Trimmed(x, y) ==
  /\ strip(y) = y
  /\ \A k \in 1..Len(y) : y[k] \in Whitespace => y[k] = " "
  /\ \A k \in 1..(Len(y) - 1) : ~(y[k] = " " /\ y[k + 1] = " ")
  /\ (\A k \in 1..Len(x) : x[k] \in Whitespace) => y = <<>>

\* C14 as claimed: clean_text(x) is trimmed, and it is the non-whitespace
\* tokens of x, in the same order, separated by single spaces.
C14_TokensOfInput ==
  Len(ret) >= 1 =>
     /\ Trimmed(arg, ret[1])
     /\ Tokens(ret[1]) = Tokens(arg)
     /\ ret[1] = Join(Tokens(arg))

\* C14 amended: clean_text(x) is trimmed, and it is the non-whitespace
\* tokens of the NFKC form of x, in the same order, separated by single
\* spaces.
C14_TokensOfNormalForm ==
  Len(ret) >= 1 =>
     /\ Trimmed(arg, ret[1])
     /\ Tokens(ret[1]) = Tokens(NFKC(arg))
     /\ ret[1] = Join(Tokens(NFKC(arg)))

\* clean_text has returned two tokens for a text whose tokens are others,
\* and that begins with whitespace and holds a run of whitespace.
C14_Witness ==
  /\ Len(ret) >= 1
  /\ Len(Tokens(ret[1])) = 2
  /\ Tokens(ret[1]) # Tokens(arg)
  /\ Head(arg) \in Whitespace
  /\ \E k \in 1..(Len(arg) - 1) : arg[k] \in Whitespace /\ arg[k + 1] \in Whitespace


\* C15: extract_content_between_anchors returns null exactly when start_id
\* resolves to no element, and then visits no node; when start_id resolves
\* it returns the space-joined accumulator as a string, never null.
C15_NullIffStartMissing ==
  ~start_id.isNone =>
     /\ pc = "walk" => find_id(soup, start_id.s) # 0
     /\ calls # <<>> => (calls[1].span.isNone <=> find_id(soup, start_id.s) = 0)
     /\ (Len(calls) = 1 /\ pc # "rwalk" /\ calls[1].span.isNone) =>
          (curr = 0 /\ count = 0 /\ content = <<>>)
     /\ (Len(calls) = 1 /\ pc # "rwalk" /\ ~calls[1].span.isNone) =>
          calls[1].span = Str(Join(content))

\* The start anchor is the last element of the document: the walk has
\* collected nothing and the extractor has returned the empty string.
C15_Witness ==
  /\ ~start_id.isNone
  /\ Len(calls) = 1
  /\ find_id(soup, start_id.s) # 0
  /\ calls[1].span = Str(<<>>)

\* C16: the files and the tally a run leaves do not depend on the order of
\* the rows.  The effect of a row does not depend on the state it starts in,
\* so for a run this means: a row that writes a file an earlier row has
\* written leaves it with the same content, and no row stops the run after
\* an earlier row has been processed.
C16_OrderIndependent ==
  /\ (pc = "save" /\ ~files[accession].isNone) =>
        files[accession] = Str(clean_text(Substitute(text).text.s))
  /\ (pc = "crashed" /\ accession # "") => i < 2


\* The strings of the elements that lie between the start anchor and the
\* node the walk of the extractor ended at (the end anchor, or the end of
\* the document).
Between ==
  {p \in StringNodes(soup) :
     /\ StringParent(soup, p) \in Visited
     /\ curr # 0 => p < curr
     /\ strip(At(soup, p).text) # <<>>}

\* C17: every text fragment of the elements between the anchors is
\* appended to the accumulator precisely once, whatever the nesting:
\* exactly one visited node contributes it.
C17_EachFragmentOnce ==
  TocWalkReturned =>
    \A p \in Between :
       Cardinality({v \in Visited : p \in SubtreeStrings(soup, v)}) = 1


\* The links after the matched link, in document order, that have an href
\* beginning with '#' whose target differs from the start id.
EndCandidates ==
  {k \in Tags(soup) :
     /\ k > link
     /\ At(soup, k).name = "a"
     /\ Truthy(At(soup, k).href)
     /\ Head(At(soup, k).href.s) = "#"
     /\ Tail(At(soup, k).href.s) # start_id.s}

\* C18: the end id is the target of the first link that comes after the
\* matched link in document order, has an href beginning with '#' and a
\* target other than the start id; links before the matched link and
\* non-internal links are never selected, and no later candidate is
\* preferred over an earlier one.
C18_FirstLaterInternalLink ==
  ~start_id.isNone =>
     end_id = IF EndCandidates = {} THEN None
              ELSE Str(Tail(At(soup, Min(EndCandidates)).href.s))

\* The end id has been chosen where an internal link to another target
\* precedes the matched link, a link to another page follows it, and two
\* internal links to two other targets follow that one.
C18_Witness ==
  /\ ~start_id.isNone /\ Truthy(end_id)
  /\ \E b \in 1..(link - 1) :
        /\ At(soup, b).name = "a"
        /\ At(soup, b).href \notin {Str(<<"#">> \o start_id.s), Str(<<"#">> \o end_id.s)}
        /\ Head(At(soup, b).href.s) = "#"
  /\ Cardinality(EndCandidates) = 2
  /\ At(soup, link + 1).name = "a" /\ Head(At(soup, link + 1).href.s) # "#"
  /\ \E k \in EndCandidates : At(soup, k).href # Str(<<"#">> \o end_id.s)


\* extract_via_regex has accepted a header, walked and returned, and its
\* locals are still those of that walk.
RegexWalkReturned ==
  /\ pc \in {"save", "write", "tally"}
  /\ Len(calls) = 2
  /\ ~calls[2].span.isNone

\* The nodes after the accepted header that are next-item headers: their
\* text begins with Item 2 .. Item 6 and has less than 100 characters.
StopHeaders ==
  {v \in Tags(soup) :
     /\ v > start_elem
     /\ StopMatch(get_text(soup, v, TRUE))
     /\ len(get_text(soup, v, TRUE)) < header_len}

\* C19: the walk of extract_via_regex stops at the first node after the
\* accepted header whose text matches ^Item [2-6] and is shorter than 100
\* characters (a longer one does not stop it), and the returned text holds
\* no string of that node or of a node after it, also when an enclosing
\* container of the stop header is visited first.
C19_StopExclusive ==
  RegexWalkReturned =>
     /\ curr = IF StopHeaders = {} THEN 0 ELSE Min(StopHeaders)
     /\ curr # 0 =>
          \A v \in Visited : \A p \in SubtreeStrings(soup, v) : p < curr

\* The tags that enclose the string at position m, from its parent up.
RECURSIVE Ancestors(_, _)
Ancestors(doc, a) ==
  IF a = 0 THEN {} ELSE {a} \cup Ancestors(doc, At(doc, a).parent)

\* The text nodes that match the header pattern, are in no link, and whose
\* parent has a normalized text of less than 100 characters.
Qualifying ==
  {m \in StringNodes(soup) :
     /\ \E k \in 1..Len(At(soup, m).text) : HeaderMatchAt(At(soup, m).text, k)
     /\ \A a \in Ancestors(soup, StringParent(soup, m)) : At(soup, a).name # "a"
     /\ len(clean_text(get_text(soup, StringParent(soup, m), FALSE))) < header_len}

\* C20: the header extract_via_regex accepts is the parent of the first
\* text node, in document order, that matches the pattern, is neither in a
\* link nor nested in one, and whose parent's normalized text is shorter
\* than 100 characters; if there is none, the result is (null, header not
\* found) and no node is walked.
C20_FirstQualifyingHeader ==
  /\ pc = "rwalk" =>
        (Qualifying # {} /\ start_elem = StringParent(soup, Min(Qualifying)))
  /\ Len(calls) = 2 =>
        IF Qualifying = {}
        THEN /\ calls[2].span.isNone
             /\ pc \in {"save", "write"} => method = <<"Regex: Header not found">>
        ELSE /\ ~calls[2].span.isNone
             /\ start_elem = StringParent(soup, Min(Qualifying))

\* The accepted header comes after a match in a TOC link and after a
\* mention in a long sentence, and the walk from it has returned text.
C20_Witness ==
  /\ RegexWalkReturned
  /\ start_elem > 2
  /\ Truthy(calls[2].span)
  /\ \E m1 \in 1..(start_elem - 1) :
        /\ At(soup, m1).name = "a" /\ HeaderSearch(At(soup, m1).text)
        /\ \E m2 \in (m1 + 1)..(start_elem - 1) :
              /\ At(soup, m2).name = "p" /\ HeaderSearch(At(soup, m2).text)
              /\ len(At(soup, m2).text) >= header_len


\* C21: the walk of extract_via_regex visits at most 3000 nodes after the
\* accepted header, whether or not a next-item header is met, and then
\* returns the space-joined text accumulated so far with the label
\* "Regex extraction".
C21_RegexCeiling ==
  /\ pc = "rwalk" => count <= regex_limit
  /\ RegexWalkReturned =>
       /\ count <= regex_limit
       /\ calls[2].span = Str(Join(content))
       /\ method = <<"Regex extraction">>

\* The limit has stopped a walk that had more nodes to visit, and the text
\* collected up to there has been returned.
C21_Witness ==
  /\ RegexWalkReturned
  /\ count = regex_limit /\ curr # 0
  /\ content # <<>>
  /\ \E v \in Tags(soup) : v > curr /\ At(soup, v).text = BodyText


\* The links whose text holds "Risk Factors", and those whose text matches
\* the header pattern.
LiteralLinks ==
  {j \in Tags(soup) : /\ At(soup, j).name = "a"
                       /\ ~TagString(soup, j).isNone
                       /\ InStr(RiskFactorsLiteral, TagString(soup, j).s)}
PatternLinks ==
  {j \in Tags(soup) : /\ At(soup, j).name = "a"
                       /\ ~TagString(soup, j).isNone
                       /\ HeaderSearch(TagString(soup, j).s)}

\* The first link whose text matches.
FirstMatching ==
  IF LiteralLinks # {} THEN Min(LiteralLinks)
  ELSE IF PatternLinks # {} THEN Min(PatternLinks)
  ELSE 0

\* The href of the first matching link is missing, empty or not internal.
NoInternalHref ==
  /\ FirstMatching # 0
  /\ \/ ~Truthy(At(soup, FirstMatching).href)
     \/ Head(At(soup, FirstMatching).href.s) # "#"

\* C22: if the first link whose text matches has no href or an href that
\* does not begin with '#', extract_via_toc returns a null span with the
\* diagnostic "TOC link has no internal href", looks up no anchor and walks
\* no node; it does not try a later matching link.
C22_NoInternalHref ==
  (soup # NoDoc /\ pc # "toc" /\ NoInternalHref) =>
     /\ link = FirstMatching
     /\ start_id.isNone /\ end_id.isNone
     /\ pc # "walk"
     /\ calls # <<>> /\ calls[1].span.isNone
     /\ pc = "regex" => (method = <<"TOC link has no internal href">>
                          /\ start_elem = 0 /\ curr = 0 /\ count = 0)

\* The matched link has no href, a later link with matching text points to
\* an anchor that exists, and the TOC locator has returned null.
C22_Witness ==
  /\ pc = "regex"
  /\ NoInternalHref
  /\ At(soup, link).href.isNone
  /\ \E k \in LiteralLinks :
        /\ k > link
        /\ At(soup, k).href = Str(<<"#", "s">>)
        /\ find_id(soup, <<"s">>) # 0


\* C23: when no link after the matched link has an internal href with a
\* target other than the start id, the end id stays unset and the extractor
\* runs open-ended: the walk ends only at the end of the document or at the
\* 5000-node ceiling, and the label names the end anchor as None.
C23_OpenEnded ==
  (TocWalkReturned /\ ~start_id.isNone /\ EndCandidates = {}) =>
     /\ end_id = None
     /\ curr = 0 \/ count = max_elements
     /\ calls[1].span = Str(Join(content))
     /\ pc \in {"regex", "save", "write"} =>
          method = <<"TOC extraction (End anchor: ", "None", ")">>

\* An open-ended walk has passed an element that carries an id and has
\* reached the end of the document with text collected.
C23_Witness ==
  /\ pc = "save"
  /\ TocWalkReturned /\ ~start_id.isNone /\ EndCandidates = {}
  /\ curr = 0
  /\ content # <<>>
  /\ \E v \in Tags(soup) : v > start_elem /\ ~At(soup, v).id.isNone


\* The elements that carry the start id, and those after the start anchor
\* that carry the end id.
StartCarriers == {t \in Tags(soup) : At(soup, t).id = start_id}
EndCarriersAfter ==
  {t \in Tags(soup) : t > start_elem /\ Truthy(end_id) /\ At(soup, t).id = end_id}

\* C24: with duplicate ids the lookup is first-match-wins: the walk starts
\* after the first element that carries start_id and stops at the first
\* element after it that carries end_id; an element with end_id before the
\* start anchor neither stops nor shortens the walk, which visits every
\* element in between.
C24_FirstMatchWins ==
  TocWalkReturned =>
     /\ start_elem = Min(StartCarriers)
     /\ \/ curr = (IF EndCarriersAfter = {} THEN 0 ELSE Min(EndCarriersAfter))
        \/ count = max_elements
     /\ count = Cardinality(Visited)

\* The only element with the end id lies before the start anchor, and the
\* walk has run to the end of the document and collected text.
C24_Witness ==
  /\ TocWalkReturned
  /\ Truthy(end_id)
  /\ \E t \in Tags(soup) : t < start_elem /\ At(soup, t).id = end_id
  /\ EndCarriersAfter = {}
  /\ curr = 0
  /\ content # <<>>


\* extract_content_between_anchors(doc, sid, eid) as one call on a tree.
RECURSIVE WalkFrom(_, _, _, _, _)
WalkFrom(doc, c, n, eid, acc) ==
  IF c # 0 /\ n < max_elements /\ ~(Truthy(eid) /\ At(doc, c).id = eid)
  THEN WalkFrom(doc, find_next(doc, c), n + 1, eid,
                IF NodeText(doc, c) # <<>> THEN Append(acc, NodeText(doc, c)) ELSE acc)
  ELSE acc

\* extract_via_toc(doc) as one call on a tree: the (span, label) returned.
TocOn(doc) ==
  LET lnk == FindTocLink(doc)
      href == At(doc, lnk).href
      sid == Tail(href.s)
      eid == FindEndId(doc, lnk, sid)
      st == find_id(doc, sid)
  IN IF lnk = 0 THEN <<None, <<"No TOC link found">>>>
     ELSE IF ~Truthy(href) \/ Head(href.s) # "#"
     THEN <<None, <<"TOC link has no internal href">>>>
     ELSE IF st = 0 THEN <<None, TocLabel(eid)>>
     ELSE <<Str(Join(WalkFrom(doc, find_next(doc, st), 0, eid, <<>>))), TocLabel(eid)>>

\* The walk of extract_via_regex as one call on a tree.
RECURSIVE RegexWalkFrom(_, _, _, _)
RegexWalkFrom(doc, c, n, acc) ==
  IF c # 0 /\ n < regex_limit /\ ~IsStopHeader(get_text(doc, c, TRUE))
  THEN RegexWalkFrom(doc, find_next(doc, c), n + 1,
                     IF get_text(doc, c, TRUE) # <<>>
                     THEN Append(acc, get_text(doc, c, TRUE)) ELSE acc)
  ELSE acc

\* extract_via_regex(doc) as one call on a tree: the (span, label) returned.
RegexOn(doc) ==
  LET candidate == RegexCandidate(doc)
  IN IF candidate = -1 THEN <<None, <<"Regex: Header not found">>>>
     ELSE <<Str(Join(RegexWalkFrom(doc, find_next(doc, candidate), 0, <<>>))),
            <<"Regex extraction">>>>

\* C25: the locators and the extractor do not modify the document tree:
\* while they run the tree stays as it was parsed, and what each returns,
\* extract_via_regex after extract_via_toc included, is the (span, label)
\* of one call on the tree as parsed.
C25_TreeUntouched ==
  [][/\ pc \in {"toc", "walk", "regex", "rwalk"} => soup' = soup
     /\ (Len(calls) = 0 /\ Len(calls') = 1) =>
          <<calls'[1].span, method'>> = TocOn(soup')
     /\ (Len(calls) = 1 /\ Len(calls') = 2) =>
          <<calls'[2].span, method'>> = RegexOn(soup')]_vars

\* The regex locator has returned text on a tree in which the TOC locator
\* has found a link before and returned no text.
C25_Witness ==
  /\ Len(calls) = 2
  /\ link # 0
  /\ ~Truthy(calls[1].span)
  /\ Truthy(calls[2].span)
  /\ <<calls[2].span, method>> = RegexOn(soup)


\* C26: an end id selected by extract_via_toc is a non-empty string that
\* the extractor uses as its stop condition: a following link whose href
\* is exactly "#" never ends the look-ahead, so while the extractor walks
\* a tree with a later link to a non-empty target other than the start's,
\* the walk has an end anchor.
C26_EndIdNonEmpty ==
  /\ ~end_id.isNone => end_id.s # <<>>
  /\ (pc = "walk" /\ \E k \in EndCandidates : Tail(At(soup, k).href.s) # <<>>)
       => Truthy(end_id)

=============================================================================
